---- MODULE Spec2Model ----
(***************************************************************************)
(* A model of the AI Travel Planner (src/app.py): the place lookup         *)
(* get_places, the map link builder get_maps_url, the WhatsApp dispatcher  *)
(* send_whatsapp (textwrap.wrap + one Twilio send per chunk) and the       *)
(* "Generate Travel Plan" handler of the Streamlit script.                 *)
(*                                                                         *)
(* Text.  A Python string is modelled as a sequence of tokens.  A token is *)
(* a record [k, s, n, hs]:                                                 *)
(*   k = "w"  a whitespace-free piece of n characters; s is its spelling   *)
(*            when it is a literal, and "x" when the token stands for a    *)
(*            run of n characters 'x' (a piece too long to spell out);     *)
(*            hs is the set of offsets (0-based) of hyphens inside the     *)
(*            piece at which textwrap's word splitter does not split;      *)
(*   k = "h"  like "w", and the piece ends in a hyphen at which textwrap's  *)
(*            word splitter splits ("well-" of "well-known");              *)
(*   k = "s"  n space characters;                                          *)
(*   k = "n"  n newline characters.                                        *)
(* No piece holds two hyphens next to each other or a tab.                 *)
(* Adjacent "w" tokens form one word, as in "Goa" ":" for "Goa:".          *)
(***************************************************************************)
EXTENDS Integers, Sequences, FiniteSets, TLC

VARIABLES
    ui,           \* presentation layer state: "Idle" or "Generating"
    pc,           \* position of the running code
    button,       \* st.sidebar.button(...) in the latest script run (src/app.py:136)
    destination,  \* value of the Destination text input (src/app.py:130)
    hotels,       \* src/app.py:139
    restaurants,  \* src/app.py:140
    attractions,  \* src/app.py:141
    llm_call,     \* what generate_itinerary put into the prompt, and whether llm.invoke raised
    itinerary,    \* src/app.py:143
    screen,       \* elements rendered by the current script run, in order
    calls,        \* external calls made by the current run, per API
    message,      \* argument of send_whatsapp
    chunks,       \* textwrap.wrap(message, max_len), the list the loop walks
    idx,          \* number of loop iterations of send_whatsapp started
    attempts,     \* the messages.create calls, in order: the chunk's index, and whether it returned
    delivered,    \* bodies accepted by the messaging API, in order
    result,       \* return value of send_whatsapp
    gp_args,      \* arguments of a direct get_places call
    gp_log        \* the get_places calls of the current run: arguments, response, outcome

vars == <<ui, pc, button, destination, hotels, restaurants, attractions, llm_call,
          itinerary, screen, calls, message, chunks, idx, attempts, delivered,
          result, gp_args, gp_log>>

(***************************************************************************)
(* Bounds of the model and constants of the program.                       *)
(***************************************************************************)
MaxResults == 6      \* most raw results a places response carries
MaxTopN == 4         \* largest top_n of a direct get_places call
MaxToks == 3         \* most tokens of a message of a direct send_whatsapp call
max_len == 1500      \* src/app.py:95
DefaultTopN == 5     \* src/app.py:52

(***************************************************************************)
(* Tokens.                                                                 *)
(***************************************************************************)
W(s) == [k |-> "w", s |-> s, n |-> Len(s), hs |-> {}]
Glyph(s) == [k |-> "w", s |-> s, n |-> 1, hs |-> {}]   \* one non-ASCII character, named by s
Hy(s) == [k |-> "h", s |-> s, n |-> Len(s), hs |-> {}]
XRun(n, hs) == [k |-> "w", s |-> "x", n |-> n, hs |-> hs]
Spaces(n) == [k |-> "s", s |-> " ", n |-> n, hs |-> {}]
Newlines(n) == [k |-> "n", s |-> "\n", n |-> n, hs |-> {}]
SP == Spaces(1)
NL == Newlines(1)

Min(a, b) == IF a <= b THEN a ELSE b

RECURSIVE Rep(_, _)
Rep(s, n) == IF n = 0 THEN "" ELSE s \o Rep(s, n - 1)

RECURSIVE Flat(_)
\* concatenation of a sequence of token sequences
Flat(ss) == IF ss = <<>> THEN <<>> ELSE Head(ss) \o Flat(Tail(ss))

(***************************************************************************)
(* get_maps_url, src/app.py:32-35.  quote_plus maps a space to "+", keeps  *)
(* letters, digits and "_.-~", and percent-encodes every other character;  *)
(* the word tokens of the model are either made of kept characters or are  *)
(* one of the single characters listed here.                               *)
(***************************************************************************)
quote_char(s) ==
    CASE s = "&" -> "%26"
      [] s = "," -> "%2C"
      [] s = "/" -> "%2F"
      [] s = ":" -> "%3A"
      [] OTHER -> s

quote_tok(t) ==
    CASE t.k = "s" -> Rep("+", t.n)
      [] t.k = "n" -> Rep("%0A", t.n)
      [] OTHER -> quote_char(t.s)

RECURSIVE quote_plus(_)
quote_plus(t) == IF t = <<>> THEN "" ELSE quote_tok(Head(t)) \o quote_plus(Tail(t))

get_maps_url(name, address) ==
    LET query == quote_plus(IF address # <<>> THEN name \o <<SP>> \o address ELSE name)
    IN  <<W("https://www.google.com/maps/search/?api=1&query=" \o query)>>

(***************************************************************************)
(* The places API.  A response is either an exception raised by            *)
(* requests.get / r.json(), or a JSON object that may lack the "results"   *)
(* key; a raw result may lack "formatted_address" and "rating".            *)
(***************************************************************************)
RawResult(i) ==
    [name |-> <<W("Place"), SP, W(ToString(i))>>,
     has_address |-> (i % 2 = 1),
     formatted_address |-> <<W(ToString(i)), SP, W("Main"), SP, W("St")>>,
     has_rating |-> (i % 3 # 0),
     rating |-> <<W("4." \o ToString(i))>>]

RawResults(n) == [i \in 1..n |-> RawResult(i)]

Responses ==
    {[raised |-> TRUE, has_results |-> FALSE, results |-> <<>>],
     [raised |-> FALSE, has_results |-> FALSE, results |-> <<>>]}
    \cup {[raised |-> FALSE, has_results |-> TRUE, results |-> RawResults(n)] : n \in 0..MaxResults}

(***************************************************************************)
(* get_places, src/app.py:52-90, applied to the JSON the request returned. *)
(***************************************************************************)
ResultPlace(place) ==
    LET name == place.name
        address == IF place.has_address THEN place.formatted_address
                   ELSE <<W("No"), SP, W("address"), SP, W("available")>>
        rating == IF place.has_rating THEN place.rating ELSE <<W("N/A")>>
    IN  [name |-> name, address |-> address, rating |-> rating,
         maps_url |-> get_maps_url(name, address)]

\* the placeholder named with i instead of i + 1
FallbackPlace_zero_based(destination_, place_type, i) ==
    LET name == place_type \o <<SP, W(ToString(i))>>
    IN  [name |-> name,
         address |-> <<W("Not"), SP, W("available")>>,
         rating |-> <<W("N/A")>>,
         maps_url |-> get_maps_url(name, destination_)]

FallbackPlace(destination_, place_type, i) ==
    LET name == place_type \o <<SP, W(ToString(i + 1))>>
    IN  [name |-> name,
         address |-> <<W("Not"), SP, W("available")>>,
         rating |-> <<W("N/A")>>,
         maps_url |-> get_maps_url(name, destination_)]

\* get_places without the [:top_n] slice of line 65
get_places_noslice(destination_, place_type, top_n, response) ==
    LET results == IF response.has_results THEN response.results ELSE <<>>
    IN  IF results # <<>>
        THEN [j \in 1..Len(results) |-> ResultPlace(results[j])]
        ELSE [j \in 1..top_n |-> FallbackPlace(destination_, place_type, j - 1)]

get_places(destination_, place_type, top_n, response) ==
    LET results == IF response.has_results THEN response.results ELSE <<>>
    IN  IF results # <<>>
        THEN [j \in 1..Min(top_n, Len(results)) |-> ResultPlace(results[j])]
        ELSE [j \in 1..top_n |-> FallbackPlace(destination_, place_type, j - 1)]

\* the responses tried in the handler: a raise, no "results" key, and 0, 2 or
\* MaxResults results
HandlerResponses ==
    {r \in Responses : Len(r.results) \in {0, 2, MaxResults}}

Destinations ==
    {<<W("Goa")>>, <<W("New"), SP, W("York")>>, <<W("A"), W("&"), W("B")>>}

HOTELS == <<W("hotels")>>
RESTAURANTS == <<W("restaurants")>>
TOURIST_ATTRACTIONS == <<W("tourist"), SP, W("attractions")>>
PlaceTypes == {HOTELS, RESTAURANTS, TOURIST_ATTRACTIONS}

(***************************************************************************)
(* textwrap.wrap(message, max_len), src/app.py:96, with the defaults of    *)
(* TextWrapper: expand_tabs, replace_whitespace, drop_whitespace,          *)
(* break_long_words and break_on_hyphens are on, the indents are empty and *)
(* max_lines is None.  A chunk of the splitter is [ws, n, hs, open]: n     *)
(* characters, all whitespace iff ws, with unsplit hyphens at offsets hs;  *)
(* open tells whether a following word token belongs to the same chunk.    *)
(***************************************************************************)
munge_whitespace(text) ==
    [i \in DOMAIN text |-> IF text[i].k = "n" THEN Spaces(text[i].n) ELSE text[i]]

ChunkOf(t) == [ws |-> t.k = "s", n |-> t.n, hs |-> t.hs, open |-> t.k # "h"]

\* chunk lists of two adjacent stretches of text, put together: the pieces on
\* both sides of the seam are one chunk when the splitter does not split there
JoinChunks(a, b) ==
    IF a = <<>> THEN b
    ELSE IF b = <<>> THEN a
    ELSE LET l == a[Len(a)]
             r == b[1]
         IN  IF l.ws = r.ws /\ (l.ws \/ l.open)
             THEN SubSeq(a, 1, Len(a) - 1)
                  \o <<[ws |-> l.ws, n |-> l.n + r.n,
                        hs |-> l.hs \cup {l.n + h : h \in r.hs}, open |-> r.open]>>
                  \o Tail(b)
             ELSE a \o b

RECURSIVE split(_)
\* _split: the chunks of wordsep_re, computed by halving the text
split(text) ==
    IF Len(text) = 0 THEN <<>>
    ELSE IF Len(text) = 1 THEN (IF text[1].n = 0 THEN <<>> ELSE <<ChunkOf(text[1])>>)
    ELSE LET h == Len(text) \div 2
         IN  JoinChunks(split(SubSeq(text, 1, h)), split(SubSeq(text, h + 1, Len(text))))

SetMax(S) == CHOOSE m \in S : \A o \in S : o <= m

\* the first end characters of a chunk, and the rest of it
ChunkHead(c, end) == [c EXCEPT !.n = end, !.hs = {h \in c.hs : h < end}, !.open = FALSE]
ChunkTail(c, end) == [c EXCEPT !.n = c.n - end, !.hs = {h - end : h \in {g \in c.hs : g >= end}}]

RECURSIVE Lengths(_)
\* Lengths(cs)[j] is the number of characters of the first j chunks
Lengths(cs) ==
    IF Len(cs) = 0 THEN <<>>
    ELSE IF Len(cs) = 1 THEN <<cs[1].n>>
    ELSE LET h == Len(cs) \div 2
             l == Lengths(SubSeq(cs, 1, h))
             r == Lengths(SubSeq(cs, h + 1, Len(cs)))
         IN  l \o [i \in 1..Len(r) |-> l[h] + r[i]]

\* the inner "while chunks" loop of _wrap_chunks, entered with an empty line:
\* it moves chunks to the line as long as the next one fits
fill_line(cs, width) ==
    LET upto == Lengths(cs)
        m == SetMax({0} \cup {j \in 1..Len(cs) : upto[j] <= width})
    IN  [cur_line |-> SubSeq(cs, 1, m),
         cur_len |-> IF m = 0 THEN 0 ELSE upto[m],
         rest |-> SubSeq(cs, m + 1, Len(cs))]

\* _handle_long_word as with break_long_words off: a chunk too long for any
\* line goes whole on a line of its own
handle_long_word_nobreak(cs, cur_line, cur_len, width) ==
    IF cur_line = <<>>
    THEN [cur_line |-> <<Head(cs)>>, rest |-> Tail(cs)]
    ELSE [cur_line |-> cur_line, rest |-> cs]

\* _handle_long_word with break_long_words and break_on_hyphens
handle_long_word(cs, cur_line, cur_len, width) ==
    LET space_left == IF width < 1 THEN 1 ELSE width - cur_len
        chunk == Head(cs)
        found == {h \in chunk.hs : h < space_left}
        hyphen == IF found = {} THEN -1 ELSE SetMax(found)
        end == IF chunk.n > space_left /\ hyphen > 0 THEN hyphen + 1 ELSE space_left
    IN  [cur_line |-> Append(cur_line, ChunkHead(chunk, end)),
         rest |-> <<ChunkTail(chunk, end)>> \o Tail(cs)]

\* chunk.strip() == ''
Blank(c) == c.ws \/ c.n = 0

\* one pass of the outer loop of _wrap_chunks: the line built, the chunks left
one_line(cs, first, width) ==
    LET c0 == IF Blank(Head(cs)) /\ ~first THEN Tail(cs) ELSE cs
        f == fill_line(c0, width)
        g == IF f.rest # <<>> /\ Head(f.rest).n > width
             THEN handle_long_word(f.rest, f.cur_line, f.cur_len, width)
             ELSE [cur_line |-> f.cur_line, rest |-> f.rest]
        cur == IF g.cur_line # <<>> /\ Blank(g.cur_line[Len(g.cur_line)])
               THEN SubSeq(g.cur_line, 1, Len(g.cur_line) - 1)
               ELSE g.cur_line
    IN  [line |-> cur, rest |-> g.rest]

RECURSIVE wrap_chunks(_, _, _)
wrap_chunks(cs, lines, width) ==
    IF cs = <<>> THEN lines
    ELSE LET r == one_line(cs, lines = <<>>, width)
         IN  wrap_chunks(r.rest, IF r.line # <<>> THEN Append(lines, r.line) ELSE lines, width)

\* the characters of a string as runs [k, n] of one class each: "w", "s" or "n"
RunCat(a, b) ==
    IF a = <<>> THEN b
    ELSE IF b = <<>> THEN a
    ELSE IF a[Len(a)].k = b[1].k
    THEN SubSeq(a, 1, Len(a) - 1) \o <<[k |-> b[1].k, n |-> a[Len(a)].n + b[1].n]>> \o Tail(b)
    ELSE a \o b

RECURSIVE LineRuns(_)
LineRuns(line) ==
    IF Len(line) = 0 THEN <<>>
    ELSE IF Len(line) = 1
    THEN (IF line[1].n = 0 THEN <<>>
          ELSE <<[k |-> IF line[1].ws THEN "s" ELSE "w", n |-> line[1].n]>>)
    ELSE LET h == Len(line) \div 2
         IN  RunCat(LineRuns(SubSeq(line, 1, h)), LineRuns(SubSeq(line, h + 1, Len(line))))

RECURSIVE TextRuns(_)
TextRuns(text) ==
    IF Len(text) = 0 THEN <<>>
    ELSE IF Len(text) = 1
    THEN (IF text[1].n = 0 THEN <<>>
          ELSE <<[k |-> IF text[1].k = "h" THEN "w" ELSE text[1].k, n |-> text[1].n]>>)
    ELSE LET h == Len(text) \div 2
         IN  RunCat(TextRuns(SubSeq(text, 1, h)), TextRuns(SubSeq(text, h + 1, Len(text))))

RunsLen(rs) == IF rs = <<>> THEN 0 ELSE Lengths(rs)[Len(rs)]

\* textwrap.wrap: the list of lines, each as its runs of characters
wrap(text, width) ==
    LET lines == wrap_chunks(split(munge_whitespace(text)), <<>>, width)
    IN  [i \in DOMAIN lines |-> LineRuns(lines[i])]

(***************************************************************************)
(* format_places, src/app.py:106-111, and places_dict, src/app.py:113-120. *)
(***************************************************************************)
format_place(p) ==
    <<W("-"), SP, W("**")>> \o p.name \o <<W("**"), SP, W("("), Glyph("star"), SP>>
    \o p.rating \o <<W(")"), SP, W("[Google"), SP, W("Maps](")>> \o p.maps_url
    \o <<W(")"), NL, Spaces(2), W("-"), SP>> \o p.address \o <<NL>>

format_places(title, places) ==
    <<W("###"), SP, W(title), NL>> \o Flat([i \in DOMAIN places |-> format_place(places[i])])

\* {p['name']: p['maps_url'] for p in places}: the last place of a name wins
name_links(places) ==
    [nm \in {places[i].name : i \in DOMAIN places} |->
        places[SetMax({i \in DOMAIN places : places[i].name = nm})].maps_url]

places_dict(hotels_, restaurants_, attractions_) ==
    [hotels |-> name_links(hotels_),
     restaurants |-> name_links(restaurants_),
     attractions |-> name_links(attractions_)]

(***************************************************************************)
(* What the handler renders, src/app.py:145-159, 169, 171, 173.            *)
(***************************************************************************)
Subheader(t) == [el |-> "subheader", v |-> t]
place_markdown(p) ==
    [el |-> "markdown",
     v |-> <<W("**")>> \o p.name \o <<W("**"), SP, W("("), Glyph("star"), SP>>
           \o p.rating \o <<W(")"), SP, W("[Google"), SP, W("Maps](")>> \o p.maps_url
           \o <<W(")"), NL, Glyph("pin"), SP>> \o p.address \o <<NL>>]

PlanHeader == Subheader(<<Glyph("calendar"), SP, Hy("AI-"), W("Generated"), SP, W("Travel"), SP, W("Plan")>>)
HotelsHeader == Subheader(<<Glyph("hotel"), SP, W("Recommended"), SP, W("Hotels")>>)
RestaurantsHeader == Subheader(<<Glyph("plate"), Glyph("vs16"), SP, W("Recommended"), SP, W("Restaurants")>>)
AttractionsHeader == Subheader(<<Glyph("globe"), SP, W("Must"), Hy("-"), W("See"), SP, W("Attractions")>>)

render(itinerary_, hotels_, restaurants_, attractions_) ==
    <<PlanHeader, [el |-> "write", v |-> itinerary_]>>
    \o <<HotelsHeader>> \o [i \in DOMAIN hotels_ |-> place_markdown(hotels_[i])]
    \o <<RestaurantsHeader>> \o [i \in DOMAIN restaurants_ |-> place_markdown(restaurants_[i])]
    \o <<AttractionsHeader>> \o [i \in DOMAIN attractions_ |-> place_markdown(attractions_[i])]

SuccessBanner ==
    [el |-> "success",
     v |-> <<Glyph("phone"), SP, W("Full"), SP, W("travel"), SP, W("plan"), SP, W("sent"), SP,
             W("to"), SP, W("your"), SP, W("WhatsApp!")>>]
ErrorBanner(res) ==
    [el |-> "error",
     v |-> <<W("Failed"), SP, W("to"), SP, W("send"), SP, W("WhatsApp"), SP, W("message:"), SP>> \o res.v]
ValidationBanner ==
    [el |-> "error", v |-> <<W("Please"), SP, W("enter"), SP, W("a"), SP, W("destination.")>>]
ExceptionBox(step) == [el |-> "exception", v |-> step]

\* src/app.py:162-165
whatsapp_message(destination_, itinerary_, hotels_, restaurants_, attractions_) ==
    <<W("Your"), SP, W("AI"), SP, W("Travel"), SP, W("Plan"), SP, W("for"), SP>>
    \o destination_ \o <<W(":"), Newlines(2)>> \o itinerary_ \o <<Newlines(2)>>
    \o format_places("Hotels", hotels_) \o <<NL>>
    \o format_places("Restaurants", restaurants_) \o <<NL>>
    \o format_places("Attractions", attractions_)

(***************************************************************************)
(* Values of send_whatsapp's return, and of the script's unset variables.  *)
(***************************************************************************)
NoResult == [tag |-> "none", v |-> <<>>]
True == [tag |-> "True", v |-> <<>>]
Str(e) == [tag |-> "str", v |-> e]

NoPrompt == [destination |-> <<>>, places |-> places_dict(<<>>, <<>>, <<>>), raised |-> FALSE]
NoCalls == [places |-> 0, llm |-> 0, msg |-> 0]
NoArgs == [destination |-> <<>>, place_type |-> <<>>, top_n |-> 0]

\* what the external services may answer
LLMResponses ==
    {[raised |-> TRUE, content |-> <<>>],
     [raised |-> FALSE, content |-> <<W("Day"), SP, W("1:"), SP, W("beach")>>],
     [raised |-> FALSE, content |-> <<XRun(1400, {}), Newlines(2), XRun(1400, {}), SP, XRun(1400, {})>>],
     [raised |-> FALSE, content |-> <<W("Day"), NL, XRun(3100, {})>>]}

SendOutcomes ==
    {[ok |-> TRUE, e |-> <<>>],
     [ok |-> FALSE, e |-> <<W("Unable"), SP, W("to"), SP, W("create"), SP, W("record")>>],
     [ok |-> FALSE, e |-> <<>>]}

(***************************************************************************)
(* send_whatsapp, src/app.py:92-104.                                       *)
(***************************************************************************)
\* the try inside the loop: an error does not leave it
loop_continues_on_error(i, ok) == i < Len(chunks)

\* after iteration i of the for loop ended with outcome ok, is there another one
loop_continues(i, ok) == ok /\ i < Len(chunks)

\* the except clause returning nothing of the error
send_result_swallow(out, last) ==
    IF last \/ ~out.ok THEN True ELSE NoResult

\* the value returned once the loop is left; NoResult while it goes on
send_result(out, last) ==
    IF ~out.ok THEN Str(out.e) ELSE IF last THEN True ELSE NoResult

\* a failure taking back what was sent
delivered_after_rollback(d, body, ok) == IF ok THEN Append(d, body) ELSE <<>>

\* what the messaging API holds after messages.create(body) returned or raised
delivered_after(d, body, ok) == IF ok THEN Append(d, body) ELSE d

\* entering send_whatsapp: line 96 wraps the message before the first send
SendEnter(msg) ==
    /\ message' = msg
    /\ chunks' = wrap(msg, max_len)
    /\ idx' = 0
    /\ attempts' = <<>>
    /\ delivered' = <<>>
    /\ result' = IF chunks' = <<>> THEN True ELSE NoResult

\* "if result:" in place of "if result is True:"
banner_truthy(res) ==
    IF res = True \/ (res.tag = "str" /\ res.v # <<>>) THEN SuccessBanner ELSE ErrorBanner(res)

\* src/app.py:168-171
banner(res) == IF res = True THEN SuccessBanner ELSE ErrorBanner(res)

\* send_whatsapp returns res: to the handler (lines 167-171) or to a direct caller
Return(scr, res) ==
    IF ui = "Generating"
    THEN /\ screen' = Append(scr, banner(res))
         /\ ui' = "Idle"
         /\ pc' = "idle"
    ELSE /\ pc' = "sw_returned"
         /\ screen' = scr
         /\ ui' = ui

SendChunk ==
    /\ pc = "send"
    /\ \E out \in SendOutcomes :
         LET i == idx + 1 IN
         /\ idx' = i
         /\ attempts' = Append(attempts, [chunk |-> i, ok |-> out.ok])
         /\ calls' = [calls EXCEPT !.msg = @ + 1]
         /\ delivered' = delivered_after(delivered, chunks[i], out.ok)
         /\ result' = send_result(out, i = Len(chunks))
         /\ IF loop_continues(i, out.ok)
            THEN UNCHANGED <<pc, ui, screen>>
            ELSE Return(screen, result')
    /\ UNCHANGED <<button, destination, hotels, restaurants, attractions, llm_call, itinerary,
                   message, chunks, gp_args, gp_log>>

(***************************************************************************)
(* The script, src/app.py:130-173.  Streamlit runs it from the top on each *)
(* interaction; the button is TRUE only in the run its press starts.  A    *)
(* press is taken while no run is in flight.  start_date, end_date,        *)
(* members and budget only flow into the prompt and are left out.          *)
(***************************************************************************)
\* the handler without the check of line 137
destination_given_always(d) == TRUE

destination_given(d) == d # <<>>

\* get_places catching the error of the request and going on without results
lookup_raises_never(resp) == FALSE

lookup_raises(resp) == resp.raised

LogEntry(d, t, n, resp) ==
    [destination |-> d, place_type |-> t, top_n |-> n, raised |-> resp.raised,
     results |-> IF resp.has_results THEN resp.results ELSE <<>>,
     places |-> IF lookup_raises(resp) THEN <<>> ELSE get_places(d, t, n, resp)]

Fresh ==
    /\ hotels' = <<>>
    /\ restaurants' = <<>>
    /\ attractions' = <<>>
    /\ llm_call' = NoPrompt
    /\ itinerary' = <<>>
    /\ calls' = NoCalls
    /\ message' = <<>>
    /\ chunks' = <<>>
    /\ idx' = 0
    /\ attempts' = <<>>
    /\ delivered' = <<>>
    /\ result' = NoResult
    /\ gp_log' = <<>>

\* a press of "Generate Travel Plan" with d in the Destination field
Submit ==
    /\ pc = "idle"
    /\ \E d \in Destinations \cup {<<>>} :
         /\ destination' = d
         /\ IF destination_given(d)
            THEN /\ ui' = "Generating"
                 /\ pc' = "hotels"
                 /\ screen' = <<>>
            ELSE /\ ui' = "Idle"
                 /\ pc' = "idle"
                 /\ screen' = <<ValidationBanner>>
    /\ button' = TRUE
    /\ Fresh
    /\ UNCHANGED gp_args

\* any other interaction: the script runs with the button FALSE
Rerun ==
    /\ pc = "idle"
    /\ \E d \in Destinations \cup {<<>>} : destination' = d
    /\ button' = FALSE
    /\ screen' = <<>>
    /\ Fresh
    /\ UNCHANGED <<ui, pc, gp_args>>

\* an exception nothing catches ends the run; Streamlit shows it
Abort(step) ==
    /\ screen' = Append(screen, ExceptionBox(step))
    /\ ui' = "Idle"
    /\ pc' = "idle"

Lookup(place_type, resp, next_pc) ==
    /\ calls' = [calls EXCEPT !.places = @ + 1]
    /\ gp_log' = Append(gp_log, LogEntry(destination, place_type, DefaultTopN, resp))
    /\ IF lookup_raises(resp)
       THEN Abort(<<W("get_places")>>)
       ELSE /\ pc' = next_pc
            /\ UNCHANGED <<ui, screen>>

LookupHotels ==
    /\ pc = "hotels"
    /\ \E resp \in HandlerResponses :
         /\ Lookup(HOTELS, resp, "restaurants")
         /\ hotels' = gp_log'[Len(gp_log')].places
    /\ UNCHANGED <<button, destination, restaurants, attractions, llm_call, itinerary, message,
                   chunks, idx, attempts, delivered, result, gp_args>>

LookupRestaurants ==
    /\ pc = "restaurants"
    /\ \E resp \in HandlerResponses :
         /\ Lookup(RESTAURANTS, resp, "attractions")
         /\ restaurants' = gp_log'[Len(gp_log')].places
    /\ UNCHANGED <<button, destination, hotels, attractions, llm_call, itinerary, message,
                   chunks, idx, attempts, delivered, result, gp_args>>

LookupAttractions ==
    /\ pc = "attractions"
    /\ \E resp \in HandlerResponses :
         /\ Lookup(TOURIST_ATTRACTIONS, resp, "compose")
         /\ attractions' = gp_log'[Len(gp_log')].places
    /\ UNCHANGED <<button, destination, hotels, restaurants, llm_call, itinerary, message,
                   chunks, idx, attempts, delivered, result, gp_args>>

llm_raises(r) == r.raised

\* lines 142-167: places_dict, generate_itinerary, the rendering, the message,
\* and send_whatsapp up to its first send
Compose ==
    /\ pc = "compose"
    /\ \E r \in LLMResponses :
         /\ calls' = [calls EXCEPT !.llm = @ + 1]
         /\ llm_call' = [destination |-> destination,
                         places |-> places_dict(hotels, restaurants, attractions),
                         raised |-> r.raised]
         /\ IF llm_raises(r)
            THEN /\ Abort(<<W("generate_itinerary")>>)
                 /\ UNCHANGED <<itinerary, message, chunks, idx, attempts, delivered, result>>
            ELSE /\ itinerary' = r.content
                 /\ SendEnter(whatsapp_message(destination, r.content, hotels, restaurants,
                                               attractions))
                 /\ LET scr == screen \o render(r.content, hotels, restaurants, attractions)
                    IN  IF result' # NoResult
                        THEN Return(scr, result')
                        ELSE /\ pc' = "send"
                             /\ screen' = scr
                             /\ ui' = ui
    /\ UNCHANGED <<button, destination, hotels, restaurants, attractions, gp_args, gp_log>>

Idle ==
    /\ ui = "Idle"
    /\ button = FALSE
    /\ destination = <<>>
    /\ hotels = <<>>
    /\ restaurants = <<>>
    /\ attractions = <<>>
    /\ llm_call = NoPrompt
    /\ itinerary = <<>>
    /\ screen = <<>>
    /\ calls = NoCalls
    /\ chunks = <<>>
    /\ idx = 0
    /\ attempts = <<>>
    /\ delivered = <<>>
    /\ result = NoResult
    /\ gp_log = <<>>

Init ==
    /\ Idle
    /\ pc = "idle"
    /\ message = <<>>
    /\ gp_args = NoArgs

Next ==
    \/ Submit
    \/ Rerun
    \/ LookupHotels
    \/ LookupRestaurants
    \/ LookupAttractions
    \/ Compose
    \/ SendChunk

Spec == Init /\ [][Next]_vars

(***************************************************************************)
(* get_places called directly, on arguments drawn from bounded sets.       *)
(***************************************************************************)
InitPlaces ==
    /\ Idle
    /\ pc = "gp_call"
    /\ message = <<>>
    /\ gp_args \in [destination : Destinations \cup {<<>>}, place_type : PlaceTypes,
                    top_n : 1..MaxTopN]

CallGetPlaces ==
    /\ pc = "gp_call"
    /\ \E resp \in Responses :
         /\ calls' = [calls EXCEPT !.places = @ + 1]
         /\ gp_log' = Append(gp_log, LogEntry(gp_args.destination, gp_args.place_type,
                                               gp_args.top_n, resp))
    /\ pc' = "gp_done"
    /\ UNCHANGED <<ui, button, destination, hotels, restaurants, attractions, llm_call, itinerary,
                   screen, message, chunks, idx, attempts, delivered, result, gp_args>>

NextPlaces == CallGetPlaces

SpecPlaces == InitPlaces /\ [][NextPlaces]_vars

(***************************************************************************)
(* send_whatsapp called directly, on messages drawn from a bounded set.    *)
(***************************************************************************)
TokAlphabet ==
    {SP, NL, XRun(800, {}), XRun(1500, {}), XRun(1501, {}), XRun(3100, {1400})}

RECURSIVE TextsUpTo(_)
TextsUpTo(n) ==
    IF n = 0 THEN {<<>>}
    ELSE LET shorter == TextsUpTo(n - 1)
         IN  shorter \cup {Append(t, a) : t \in {u \in shorter : Len(u) = n - 1}, a \in TokAlphabet}

Messages == TextsUpTo(MaxToks)

InitSend ==
    /\ Idle
    /\ pc = "sw_call"
    /\ message \in Messages
    /\ gp_args = NoArgs

CallSend ==
    /\ pc = "sw_call"
    /\ SendEnter(message)
    /\ pc' = IF result' # NoResult THEN "sw_returned" ELSE "send"
    /\ UNCHANGED <<ui, button, destination, hotels, restaurants, attractions, llm_call, itinerary,
                   screen, calls, gp_args, gp_log>>

NextSend ==
    \/ CallSend
    \/ SendChunk

SpecSend == InitSend /\ [][NextSend]_vars

(***************************************************************************)
(* Properties.                                                             *)
(***************************************************************************)
Returned(e) == ~e.raised
NoResults(e) == ~e.raised /\ e.results = <<>>

\* C1, as stated: every get_places call that returns, returns exactly top_n
\* places, whatever the number of results of the search.
C1_ExactlyTopN ==
    \A j \in DOMAIN gp_log : Returned(gp_log[j]) => Len(gp_log[j].places) = gp_log[j].top_n

\* C1, amended: get_places returns exactly top_n places when the search returned
\* no result or at least top_n results, and exactly as many places as there are
\* results when the search returned between 1 and top_n - 1 of them.
C1_UpToTopN ==
    \A j \in DOMAIN gp_log :
        LET e == gp_log[j]
            found == Len(e.results)
        IN  Returned(e) =>
              /\ found = 0 => Len(e.places) = e.top_n
              /\ (1 <= found /\ found < e.top_n) => Len(e.places) = found
              /\ found >= e.top_n => Len(e.places) = e.top_n
              /\ found > 0 => \A i \in DOMAIN e.places : e.places[i].name = e.results[i].name

C1_Witness ==
    \E j \in DOMAIN gp_log :
        /\ Returned(gp_log[j])
        /\ Len(gp_log[j].results) >= 1
        /\ Len(gp_log[j].results) < gp_log[j].top_n
        /\ Len(gp_log[j].places) = Len(gp_log[j].results)

\* C2: every chunk send_whatsapp hands to the messaging API has at most 1500
\* characters, also when the message holds a whitespace-free run longer than that.
C2_ChunkAtMost1500 ==
    /\ \A i \in DOMAIN chunks : RunsLen(chunks[i]) <= 1500
    /\ \A i \in DOMAIN delivered : RunsLen(delivered[i]) <= 1500
    /\ \A a \in DOMAIN attempts : attempts[a].chunk \in DOMAIN chunks

LongestWord(text) ==
    LET rs == TextRuns(text)
    IN  SetMax({0} \cup {rs[i].n : i \in {j \in DOMAIN rs : rs[j].k = "w"}})

C2_Witness ==
    /\ LongestWord(message) > 1500
    /\ Len(chunks) >= 2
    /\ Len(delivered) = Len(chunks)
    /\ \E i \in DOMAIN delivered : RunsLen(delivered[i]) = 1500

\* the chunks put together again, seps[i] standing between chunk i and chunk i + 1
RECURSIVE Rejoin(_, _, _)
Rejoin(cs, seps, i) ==
    IF i > Len(cs) THEN <<>>
    ELSE IF i = Len(cs) THEN cs[i]
    ELSE RunCat(RunCat(cs[i], seps[i]), Rejoin(cs, seps, i + 1))

Joints == {<<>>, <<[k |-> "s", n |-> 1]>>, <<[k |-> "n", n |-> 1]>>}

\* C3: the chunks of a message, concatenated in order with nothing, a space or
\* a newline put back at each wrap point, are the message again.
C3_RejoinReproduces ==
    pc \in {"send", "sw_returned"} =>
        \E seps \in [1..(Len(chunks) - 1) -> Joints] : Rejoin(chunks, seps, 1) = TextRuns(message)

AnyRaised == \E a \in DOMAIN attempts : ~attempts[a].ok
AllSent == \A i \in DOMAIN chunks : \E a \in DOMAIN attempts : attempts[a].chunk = i /\ attempts[a].ok

\* C4: send_whatsapp returns a string exactly when some chunk send raised, and
\* True exactly when every chunk of the message was sent without raising, for
\* every message (also one of no chunks) and every pattern of failures.
C4_ReturnValue ==
    /\ pc = "sw_returned" =>
         /\ result.tag \in {"str", "True"}
         /\ result.tag = "str" <=> AnyRaised
         /\ result.tag = "True" <=> AllSent
    /\ pc \in {"sw_call", "send"} => result = NoResult

C4_Witness ==
    /\ pc = "sw_returned"
    /\ result.tag = "str"
    /\ Len(attempts) >= 2
    /\ Len(attempts) < Len(chunks)

Shown(kind) == \E i \in DOMAIN screen : screen[i].el = kind

\* C5: a submit with an empty destination leaves the presentation layer Idle
\* with the validation message and no call to any API; Idle becomes Generating
\* only on a submit with a non-empty destination.
C5_EmptyDestination ==
    /\ [](button /\ destination = <<>> =>
            /\ ui = "Idle"
            /\ pc = "idle"
            /\ screen = <<ValidationBanner>>
            /\ calls = NoCalls
            /\ gp_log = <<>>
            /\ attempts = <<>>)
    /\ [][(ui = "Idle" /\ ui' = "Generating") => (button' /\ destination' # <<>>)]_vars
    /\ [](ui = "Generating" => button /\ destination # <<>>)

C5_Witness ==
    /\ button
    /\ destination = <<>>
    /\ screen = <<ValidationBanner>>
    /\ ui = "Idle"

Markdowns == SelectSeq(screen, LAMBDA e : e.el = "markdown")
Listed == hotels \o restaurants \o attractions
PlanRendered ==
    /\ \E i \in DOMAIN screen : screen[i] = [el |-> "write", v |-> itinerary]
    /\ Markdowns = [i \in DOMAIN Listed |-> place_markdown(Listed[i])]
    /\ Len(Listed) >= 3

\* C6: a failing chunk send is not fatal: the itinerary and the three place
\* lists were rendered before the dispatch and stay rendered, the error banner
\* with the failure description is shown, the success banner is not, and the
\* submission ends in Idle.
C6_SendFailureNonFatal ==
    /\ [](pc = "send" => ui = "Generating" /\ PlanRendered /\ ~Shown("success") /\ ~Shown("error"))
    /\ [][pc = "send" => SubSeq(screen', 1, Len(screen)) = screen]_vars
    /\ [](AnyRaised /\ ui = "Idle" /\ button =>
            /\ pc = "idle"
            /\ PlanRendered
            /\ result.tag = "str"
            /\ screen[Len(screen)] = [el |-> "error",
                  v |-> <<W("Failed"), SP, W("to"), SP, W("send"), SP, W("WhatsApp"), SP,
                          W("message:"), SP>> \o result.v]
            /\ ~Shown("success")
            /\ ~Shown("exception"))
    /\ [][pc = "send" /\ AnyRaised' => ui' = "Idle"]_vars

C6_Witness ==
    /\ pc = "idle"
    /\ ui = "Idle"
    /\ button
    /\ AnyRaised
    /\ Len(delivered) >= 1
    /\ Shown("error")
    /\ PlanRendered

\* C7: if a place lookup or the language-model call raises, the submission
\* aborts: no later step runs, nothing is rendered (no itinerary, no place
\* list, not even of the lookups that succeeded) and no message is dispatched.
Aborted ==
    /\ pc = "idle"
    /\ ui = "Idle"
    /\ \A i \in DOMAIN screen : screen[i].el = "exception"
    /\ calls.msg = 0
    /\ attempts = <<>>
    /\ delivered = <<>>
    /\ chunks = <<>>
    /\ itinerary = <<>>

Placeholders(e, category, unavailable) ==
    /\ Len(e.places) = e.top_n
    /\ \A i \in 1..e.top_n :
         LET nm == category \o <<SP, W(ToString(i))>>
         IN  /\ e.places[i].name = nm
             /\ e.places[i].address \in unavailable
             /\ e.places[i].rating = <<W("N/A")>>
             /\ e.places[i].maps_url =
                  <<W("https://www.google.com/maps/search/?api=1&query="
                      \o quote_plus(nm \o <<SP>> \o e.destination))>>

C8_CategoryPlaceholders ==
    \A j \in DOMAIN gp_log :
        NoResults(gp_log[j]) =>
            Placeholders(gp_log[j],
                         <<<<W("hotels")>>, <<W("restaurants")>>, <<W("attractions")>>>>[j],
                         {<<W("not"), SP, W("available")>>, <<W("Not"), SP, W("available")>>})

\* C8, amended: the placeholders are named after the query term of the lookup,
\* which is "hotels", "restaurants" and "tourist attractions", and their
\* address is "Not available".
C8_QueryTermPlaceholders ==
    \A j \in DOMAIN gp_log :
        NoResults(gp_log[j]) =>
            /\ gp_log[j].top_n = 5
            /\ Placeholders(gp_log[j],
                            <<<<W("hotels")>>, <<W("restaurants")>>,
                              <<W("tourist"), SP, W("attractions")>>>>[j],
                            {<<W("Not"), SP, W("available")>>})

C8_Witness ==
    /\ Len(gp_log) = 3
    /\ NoResults(gp_log[3])
    /\ attractions[5].name = <<W("tourist"), SP, W("attractions"), SP, W("5")>>
    /\ attractions[1].maps_url \in
          {<<W("https://www.google.com/maps/search/?api=1&query=tourist+attractions+1+Goa")>>,
           <<W("https://www.google.com/maps/search/?api=1&query=tourist+attractions+1+New+York")>>,
           <<W("https://www.google.com/maps/search/?api=1&query=tourist+attractions+1+A%26B")>>}

Attempted == {attempts[a].chunk : a \in DOMAIN attempts}

\* C9, as stated: the loop does not stop at an error; when send_whatsapp has
\* returned an error, every chunk of the message was attempted.
C9_AllChunksAttempted ==
    (pc = "sw_returned" /\ result.tag = "str") => Attempted = DOMAIN chunks

\* C9, amended: the loop stops at the first error: when the send of chunk k
\* raises, send_whatsapp returns its description at once and no chunk after k
\* is attempted.
C9_StopsAtFirstError ==
    AnyRaised =>
        /\ pc = "sw_returned"
        /\ result.tag = "str"
        /\ ~attempts[Len(attempts)].ok
        /\ \A a \in 1..(Len(attempts) - 1) : attempts[a].ok
        /\ Attempted = 1..Len(attempts)
        /\ idx = Len(attempts)

C9_Witness ==
    /\ pc = "sw_returned"
    /\ AnyRaised
    /\ Len(chunks) >= 3
    /\ Attempted = {1}

OkCount == Cardinality({a \in DOMAIN attempts : attempts[a].ok})

\* C10: at every moment the chunks delivered are a prefix of the chunk list,
\* in order and none twice; a failure undoes nothing, so after a failure at
\* chunk k the chunks 1..k-1 remain delivered.
C10_DeliveredPrefix ==
    /\ [](/\ Len(delivered) <= Len(chunks)
          /\ delivered = SubSeq(chunks, 1, Len(delivered))
          /\ \A a \in DOMAIN attempts : attempts[a].chunk = a
          /\ Len(delivered) = OkCount
          /\ AnyRaised => Len(delivered) = Len(attempts) - 1)
    /\ [][Len(delivered') >= Len(delivered) /\ SubSeq(delivered', 1, Len(delivered)) = delivered]_vars

C10_Witness ==
    /\ pc = "sw_returned"
    /\ AnyRaised
    /\ Len(attempts) = 3
    /\ Len(delivered) = 2
    /\ Len(chunks) >= 4
====
